---- MODULE Spec2Model ----
(***************************************************************************)
(* Model of the response parsing layer of the NCLEX quiz application       *)
(* (src/app.py): parse_questions_from_csv, parse_questions, the            *)
(* st.cache_data memo in front of parse_questions and the session flag     *)
(* raw_format.                                                             *)
(*                                                                         *)
(* Text representation.  A Python string is a sequence of tokens; a token  *)
(* is one character (" ", ";", "A", ...) or an opaque word without         *)
(* whitespace or quotes ("question_type", "sata", ...).  A text handed to  *)
(* the parsers is either a sequence of lines, each line being the sequence *)
(* of cells csv.reader splits it into, or one JSON document given by its   *)
(* decoded value.  A code fence is a line of its own: the one-cell lines   *)
(* FenceOpen and FenceClose.  `fenced` says the text holds such a block.   *)
(***************************************************************************)
EXTENDS Integers, Sequences, FiniteSets, TLC

VARIABLES
    output_text,   \* argument of the current / last parser call
    pc,            \* "start", "csv" (parse_questions_from_csv returned), "pq" (parse_questions returned)
    ret,           \* what the last call returned or raised
    raw_format,    \* st.session_state["raw_format"]
    cache,         \* st.cache_data memo of parse_questions: text -> returned value
    seen_pq,       \* history: text -> outcome of the first parse_questions call on it
    seen_csv,      \* history: text -> outcome of the first parse_questions_from_csv call on it
    num_questions,       \* argument of batched_generate_questions
    all_outputs,         \* its list of stripped batch outputs, each a sequence of lines
    questions_remaining, \* its loop counter
    batch_idx,           \* its batch counter
    questions,           \* st.session_state.questions
    q_index,             \* st.session_state.q_index
    answered,            \* st.session_state.answered
    selected_letters,    \* st.session_state.selected_letters
    score,               \* st.session_state.score
    scored_questions,    \* the indices that st.session_state.scored_questions maps to True
    expected_count,      \* st.session_state.expected_count
    topic,               \* st.session_state.topic
    attempt,             \* loop variable of the retry loop
    attempts_log,        \* history: what each attempt of the last submission did
    failed_shown,        \* the last submission showed "Failed ... after multiple retries"
    gen_cache            \* st.cache_data memo of generate_questions: <<n, batch_id>> -> lines

parserVars == <<output_text, pc, ret, raw_format, cache, seen_pq, seen_csv>>

batchVars == <<num_questions, all_outputs, questions_remaining, batch_idx>>

quizVars == <<questions, q_index, answered, selected_letters, score, scored_questions,
              expected_count, topic, attempt, attempts_log, failed_shown, gen_cache>>

vars == <<parserVars, batchVars, quizVars>>

-----------------------------------------------------------------------------
(* Bounds *)

MaxRows == 2        \* data rows after the header / elements of the JSON questions list

MaxBatchQuestions == 4   \* largest num_questions handed to batched_generate_questions

MaxQuestions == 2        \* largest num_questions entered in the quiz settings form

-----------------------------------------------------------------------------
(* Python string primitives on token sequences *)

Whitespace == {" ", "nbsp"}

RECURSIVE LStrip(_, _)
LStrip(s, chars) ==
    IF s # <<>> /\ Head(s) \in chars THEN LStrip(Tail(s), chars) ELSE s

RECURSIVE RStrip(_, _)
RStrip(s, chars) ==
    IF s # <<>> /\ s[Len(s)] \in chars THEN RStrip(SubSeq(s, 1, Len(s) - 1), chars) ELSE s

\* str.strip() / str.strip(chars)
Strip(s) == RStrip(LStrip(s, Whitespace), Whitespace)

StripChars(s, chars) == RStrip(LStrip(s, chars), chars)

LowerTok(t) ==
    CASE t = "A" -> "a" [] t = "B" -> "b" [] t = "C" -> "c" [] t = "D" -> "d"
      [] t = "E" -> "e" [] t = "F" -> "f" [] t = "Z" -> "z" [] t = "Q" -> "q"
      [] t = "SATA" -> "sata" [] t = "MCQ" -> "mcq"
      [] t = "Question_Type" -> "question_type"
      [] OTHER -> t

UpperTok(t) ==
    CASE t = "a" -> "A" [] t = "b" -> "B" [] t = "c" -> "C" [] t = "d" -> "D"
      [] t = "e" -> "E" [] t = "f" -> "F" [] t = "z" -> "Z" [] t = "q" -> "Q"
      [] t = "sata" -> "SATA" [] t = "mcq" -> "MCQ"
      [] t = "question_type" -> "QUESTION_TYPE" [] t = "Question_Type" -> "QUESTION_TYPE"
      [] OTHER -> t

Lower(s) == [i \in 1..Len(s) |-> LowerTok(s[i])]

Upper(s) == [i \in 1..Len(s) |-> UpperTok(s[i])]

\* the .replace chain of parse_questions_from_csv, token by token
ReplaceTok(t) ==
    CASE t = "bom" -> "" [] t = "ldquo" -> "\"" [] t = "rdquo" -> "\""
      [] t = "nbsp" -> " " [] OTHER -> t

CleanChars(s) == SelectSeq([i \in 1..Len(s) |-> ReplaceTok(s[i])], LAMBDA t : t # "")

\* re.split(r"[;,\s]+", s): the pieces between maximal separator runs
SepChars == {";", ",", " ", "nbsp"}

RECURSIVE SplitFrom(_, _, _, _)
SplitFrom(s, i, cur, inSep) ==
    IF i > Len(s) THEN <<cur>>
    ELSE IF s[i] \in SepChars
         THEN IF inSep THEN SplitFrom(s, i + 1, cur, TRUE)
              ELSE <<cur>> \o SplitFrom(s, i + 1, <<>>, TRUE)
         ELSE SplitFrom(s, i + 1, Append(cur, s[i]), FALSE)

re_split(s) == SplitFrom(s, 1, <<>>, FALSE)

\* _clean_text of parse_questions_from_csv, for a str argument
_clean_text(s) == Strip(StripChars(Strip(s), {"\""}))

-----------------------------------------------------------------------------
(* Values shared by both parsers *)

all_letters == <<"A", "B", "C", "D", "E", "F">>

SataNames == { <<"sata">>, <<"select_all_that_apply">>, <<"select all that apply">>,
               <<"select_all">>, <<"select all that apply (sata)">> }

MinSata == 6
MinMcq == 4

Range(f) == { f[i] : i \in DOMAIN f }

\* sorted(list(correct_set)) for a set of option letters
SortedLetters(S) == SelectSeq(all_letters, LAMBDA L : L \in S)

Msg(top, incomplete, skipped) == [top |-> top, incomplete |-> incomplete, skipped |-> skipped]

Returned(parsed, msg) == [exc |-> "none", parsed |-> parsed, msg |-> msg]

Raised(exc) == [exc |-> exc, parsed |-> <<>>, msg |-> Msg("", <<>>, <<>>)]

NoQuestion == [q |-> <<>>, type |-> "", choices |-> <<>>, correct_set |-> <<>>,
               rationales |-> <<>>, search_term |-> <<>>]

NoReason == [row |-> 0, code |-> "", qt |-> <<>>, min |-> 0, found |-> 0, val |-> <<>>]

Reason(idx, code) == [NoReason EXCEPT !.row = idx, !.code = code]

Accept(q) == [out |-> "accept", q |-> q, reason |-> NoReason, exc |-> "none"]
Skip(r) == [out |-> "skip", q |-> NoQuestion, reason |-> r, exc |-> "none"]
Throw(e) == [out |-> "raise", q |-> NoQuestion, reason |-> NoReason, exc |-> e]

-----------------------------------------------------------------------------
(* parse_questions_from_csv *)

Idx(n) == [i \in 1..n |-> i]

\* column names as they appear in header_lower and in the row.get keys
Col(name) == <<name>>
OptionCol(L) == <<"option_", LowerTok(L)>>
RationaleCol(L) == <<"rationale_", LowerTok(L)>>

\* the lines "```csv" and "```"; the pattern ```[a-zA-Z]*\n can match at
\* either of them when a line follows, and ``` closes at either
FenceOpen == <<<<"fence_csv">>>>
FenceClose == <<<<"fence">>>>

IsFenceMark(line) == line \in {FenceOpen, FenceClose}

\* the positions of the marker lines
FenceMarks(lines) == SelectSeq(Idx(Len(lines)), LAMBDA i : IsFenceMark(lines[i]))

\* re.search(r"```[a-zA-Z]*\n(.*?)```", txt, re.DOTALL): the leftmost
\* block runs from the first marker to the next one
FencedBlock(lines, marks) ==
    IF Len(marks) < 2 THEN lines ELSE SubSeq(lines, marks[1] + 1, marks[2] - 1)

\* the block, when there is one, replaces the text by its content
Fence(t) == FencedBlock(t.lines, FenceMarks(t.lines))

\* output_text.strip() is empty: nothing but whitespace lines, and no fence
TextIsBlank(t) ==
    /\ t.fmt = "lines"
    /\ ~t.fenced
    /\ \A i \in 1..Len(t.lines) :
          \/ Len(t.lines[i]) = 0
          \/ Len(t.lines[i]) = 1 /\ Strip(t.lines[i][1]) = <<>>

\* the lines of the cleaned text; a JSON document has no line that csv
\* could take for a header (its lines start with a brace or bracket)
CleanAll(ls) == [i \in 1..Len(ls) |-> [j \in 1..Len(ls[i]) |-> CleanChars(ls[i][j])]]

CleanLines(t) == IF t.fmt = "lines" THEN CleanAll(Fence(t)) ELSE <<>>

\* re.match(r"^\s*question_type\s*,", line, re.IGNORECASE)
IsHeaderLine(line) == Len(line) >= 2 /\ Lower(Strip(line[1])) = Col("question_type")

HeaderIdx(lines) ==
    IF \E i \in 1..Len(lines) : IsHeaderLine(lines[i])
    THEN CHOOSE i \in 1..Len(lines) :
            /\ IsHeaderLine(lines[i])
            /\ \A j \in 1..(i - 1) : ~IsHeaderLine(lines[j])
    ELSE 0

HeaderLower(row) == [i \in 1..Len(row) |-> Lower(Strip(row[i]))]

RequiredCols == {Col("question_type"), Col("question"), Col("correct_answer"), Col("correct_answers")}

RowIsBlank(row) == \A i \in 1..Len(row) : Strip(row[i]) = <<>>

\* dict(zip(header_lower, cells)): a repeated name keeps its last cell
RowDict(hdr, cells) ==
    [n \in Range(hdr) |->
        cells[CHOOSE i \in 1..Len(hdr) : hdr[i] = n /\ \A j \in (i + 1)..Len(hdr) : hdr[j] # n]]

HasCol(row, n) == n \in DOMAIN row

\* row.get(n, "")
GetD(row, n) == IF HasCol(row, n) THEN row[n] ELSE <<>>

\* membership test that forgets the list of offered letters
InLetters_any(s, letters) == Len(s) = 1

\* `s in letters` for a string s and the list of offered letters
InLetters(s, letters) == \E L \in Range(letters) : s = <<L>>

\* the multi-answer field used whatever the question type
UseMulti_any(is_sata, ca_multi) == ca_multi # <<>>

\* line 103: the multi-answer field is used for a sata row that has one
UseMulti(is_sata, ca_multi) == is_sata /\ ca_multi # <<>>

\* lines 99-114
CsvAnswer(row, row_idx, is_sata, letters) ==
    LET ca_multi == _clean_text(GetD(row, Col("correct_answers")))
        ca_single == _clean_text(GetD(row, Col("correct_answer")))
        toks == re_split(ca_multi)
    IN  IF UseMulti(is_sata, ca_multi)
        THEN [ok |-> TRUE, reason |-> NoReason,
              set |-> { Upper(toks[i])[1] :
                          i \in { k \in 1..Len(toks) :
                                    InLetters(Upper(toks[k]), letters) /\ Strip(toks[k]) # <<>> } }]
        ELSE IF ca_single # <<>>
        THEN IF InLetters(Upper(ca_single), letters)
             THEN [ok |-> TRUE, reason |-> NoReason, set |-> {Upper(ca_single)[1]}]
             ELSE [ok |-> FALSE, set |-> {},
                   reason |-> [Reason(row_idx, "Invalid correct_answer") EXCEPT !.val = ca_single]]
        ELSE [ok |-> FALSE, set |-> {},
              reason |-> Reason(row_idx, "No valid correct_answer or correct_answers")]

\* one iteration of the second loop (lines 81-132)
CsvRow(row, row_idx) ==
    LET question_text == _clean_text(GetD(row, Col("question")))
        qt_raw == Lower(GetD(row, Col("question_type")))
        is_sata == qt_raw \in SataNames
        letters == SelectSeq(all_letters, LAMBDA L : _clean_text(row[OptionCol(L)]) # <<>>)
        choices == [i \in 1..Len(letters) |->
                       [letter |-> letters[i], text |-> _clean_text(row[OptionCol(letters[i])])]]
        min_options == IF is_sata THEN MinSata ELSE MinMcq
        ans == CsvAnswer(row, row_idx, is_sata, letters)
    IN  IF question_text = <<>>
        THEN Skip(Reason(row_idx, "Missing question text"))
        ELSE IF \E L \in Range(all_letters) : ~HasCol(row, OptionCol(L))
        THEN Throw("AttributeError")      \* _clean_text(None)
        ELSE IF Len(letters) < min_options
        THEN Skip([Reason(row_idx, "requires options") EXCEPT
                      !.qt = Upper(qt_raw), !.min = min_options, !.found = Len(letters)])
        ELSE IF ~ans.ok
        THEN Skip(ans.reason)
        ELSE IF \E L \in Range(letters) : ~HasCol(row, RationaleCol(L))
        THEN Throw("AttributeError")      \* _clean_text(None)
        ELSE IF question_text # <<>> /\ choices # <<>> /\ ans.set # {}
        THEN Accept([q |-> question_text,
                     type |-> IF is_sata THEN "sata" ELSE "mcq",
                     choices |-> choices,
                     correct_set |-> SortedLetters(ans.set),
                     rationales |-> [L \in Range(letters) |-> _clean_text(row[RationaleCol(L)])],
                     search_term |-> _clean_text(GetD(row, Col("youtube_search_term")))])
        ELSE Skip(Reason(row_idx, "Missing question_text, choices, or correct answers"))

\* the outcome of a loop over records: the first exception, or the accepted
\* questions and the skip reasons, each in record order
Collect(outs, okTop, emptyTop, incomplete) ==
    LET parsed == SelectSeq(outs, LAMBDA o : o.out = "accept")
        skipped == SelectSeq(outs, LAMBDA o : o.out = "skip")
    IN  IF \E i \in 1..Len(outs) : outs[i].out = "raise"
        THEN Raised(outs[CHOOSE i \in 1..Len(outs) :
                            outs[i].out = "raise" /\ \A j \in 1..(i - 1) : outs[j].out # "raise"].exc)
        ELSE Returned([i \in 1..Len(parsed) |-> parsed[i].q],
                      Msg(IF parsed # <<>> THEN okTop ELSE emptyTop,
                          incomplete,
                          [i \in 1..Len(skipped) |-> skipped[i].reason]))

\* first loop (lines 64-73): the data rows that are neither blank nor short
NormIdx(hdr, data) ==
    SelectSeq(Idx(Len(data)), LAMBDA i : ~RowIsBlank(data[i]) /\ Len(data[i]) >= Len(hdr))

IncompleteRows(hdr, data) ==
    LET short == SelectSeq(Idx(Len(data)), LAMBDA i : ~RowIsBlank(data[i]) /\ Len(data[i]) < Len(hdr))
    IN  [k \in 1..Len(short) |-> [row |-> short[k], ncols |-> Len(data[short[k]])]]

\* lines 48-139, on the lines of the cleaned text
ParseLines(t, lines) ==
    LET header_idx == HeaderIdx(lines)
        raw_rows == SubSeq(lines, header_idx, Len(lines))
        header_lower == HeaderLower(raw_rows[1])
        data == Tail(raw_rows)
        norm == NormIdx(header_lower, data)
        norm_rows == [k \in 1..Len(norm) |->
                         RowDict(header_lower, SubSeq(data[norm[k]], 1, Len(header_lower)))]
        outs == [k \in 1..Len(norm_rows) |-> CsvRow(norm_rows[k], k)]
    IN  IF TextIsBlank(t)
        THEN Returned(<<>>, Msg("Empty input text.", <<>>, <<>>))
        ELSE IF header_idx = 0
        THEN Returned(<<>>, Msg("No valid CSV header found.", <<>>, <<>>))
        ELSE IF ~(RequiredCols \subseteq Range(header_lower))
        THEN Returned(<<>>, Msg("Incomplete or mismatched CSV header.", <<>>, <<>>))
        ELSE Collect(outs, "Parsed successfully", "No valid questions parsed.",
                     IncompleteRows(header_lower, data))

parse_questions_from_csv(t) == ParseLines(t, CleanLines(t))

-----------------------------------------------------------------------------
(* Decoded JSON values: what json.loads returns, tagged by Python type *)

JStr(s) == [t |-> "str", s |-> s]
JNum == [t |-> "int"]
JNull == [t |-> "NoneType"]
JList(items) == [t |-> "list", items |-> items]
JDict(d) == [t |-> "dict", d |-> d]

EmptyDict == [k \in {} |-> JNull]

\* insertion order of the keys of a decoded object
KeyOrder == <<"questions", "question_text", "question_type", "options", "correct_answer",
              "correct_answers", "rationales", "search_term",
              "A", "B", "C", "D", "E", "F", "correct">>

\* d.get(k, default) on a dict
GetJ(v, k, default) == IF k \in DOMAIN v.d THEN v.d[k] ELSE default

\* iter(v): the elements a for loop visits, or TypeError
Iter(v) ==
    CASE v.t = "list" -> [ok |-> TRUE, items |-> v.items]
      [] v.t = "str"  -> [ok |-> TRUE, items |-> [i \in 1..Len(v.s) |-> JStr(<<v.s[i]>>)]]
      [] v.t = "dict" -> [ok |-> TRUE,
                          items |-> LET ks == SelectSeq(KeyOrder, LAMBDA k : k \in DOMAIN v.d)
                                    IN  [i \in 1..Len(ks) |-> JStr(<<ks[i]>>)]]
      [] OTHER        -> [ok |-> FALSE, items |-> <<>>]

\* `L in v` for a one-letter string L, defined when Iter(v).ok
Contains(v, L) ==
    CASE v.t = "dict" -> L \in DOMAIN v.d
      [] v.t = "list" -> \E i \in 1..Len(v.items) : v.items[i] = JStr(<<L>>)
      [] v.t = "str"  -> \E i \in 1..Len(v.s) : v.s[i] = L
      [] OTHER        -> FALSE

\* f"{v}": the text an f-string puts for the value
Fmt(v) ==
    CASE v.t = "str"      -> v.s
      [] v.t = "int"      -> <<"5">>
      [] v.t = "NoneType" -> <<"None">>
      [] v.t = "list"     -> <<"[", "]">>
      [] OTHER            -> <<"{", "}">>

-----------------------------------------------------------------------------
(* parse_questions: the JSON fallback *)

\* lines 174-189
JsonAnswer(q, q_idx, is_sata, letters) ==
    LET cas == Iter(GetJ(q, "correct_answers", JList(<<>>)))
        ca == GetJ(q, "correct_answer", JStr(<<>>))
        hits == { Upper(Strip(cas.items[i].s))[1] :
                    i \in { k \in 1..Len(cas.items) :
                              InLetters(Upper(Strip(cas.items[k].s)), letters) } }
    IN  IF is_sata
        THEN IF ~cas.ok
             THEN [out |-> "raise", exc |-> "TypeError", set |-> {}, reason |-> NoReason]
             ELSE IF \E i \in 1..Len(cas.items) : cas.items[i].t # "str"
             THEN [out |-> "raise", exc |-> "AttributeError", set |-> {}, reason |-> NoReason]
             ELSE IF hits = {}
             THEN [out |-> "skip", exc |-> "none", set |-> {},
                   reason |-> Reason(q_idx, "No valid correct_answers")]
             ELSE [out |-> "ok", exc |-> "none", set |-> hits, reason |-> NoReason]
        ELSE IF ca.t # "str"
             THEN [out |-> "raise", exc |-> "AttributeError", set |-> {}, reason |-> NoReason]
             ELSE IF InLetters(Upper(ca.s), letters)
             THEN [out |-> "ok", exc |-> "none", reason |-> NoReason, set |-> {Upper(ca.s)[1]}]
             ELSE [out |-> "skip", exc |-> "none", set |-> {},
                   reason |-> [Reason(q_idx, "Invalid correct_answer") EXCEPT !.val = Upper(ca.s)]]

\* one iteration of the loop over data["questions"] (lines 161-205)
JsonQuestion(q, q_idx) ==
    LET qtext == GetJ(q, "question_text", JStr(<<>>))
        question_text == Strip(qtext.s)
        options == GetJ(q, "options", JDict(EmptyDict))
        qtype == GetJ(q, "question_type", JStr(<<>>))
        qt_raw == Lower(qtype.s)
        is_sata == \/ qt_raw \in SataNames
                   \/ GetJ(q, "correct_answers", JNull).t = "list"
        letters == SelectSeq(all_letters, LAMBDA L : Contains(options, L))
        choices == [i \in 1..Len(letters) |->
                       [letter |-> letters[i], text |-> Fmt(options.d[letters[i]])]]
        min_options == IF is_sata THEN MinSata ELSE MinMcq
        ans == JsonAnswer(q, q_idx, is_sata, letters)
        rats == GetJ(q, "rationales", JDict(EmptyDict))
        rationales_map == [L \in Range(letters) |-> Fmt(GetJ(rats, L, JStr(<<>>)))]
        search == GetJ(q, "search_term", JStr(<<>>))
    IN  IF q.t # "dict" THEN Throw("AttributeError")            \* q.get
        ELSE IF qtext.t # "str" THEN Throw("AttributeError")    \* .strip()
        ELSE IF qtype.t # "str" THEN Throw("AttributeError")    \* .lower()
        ELSE IF ~Iter(options).ok THEN Throw("TypeError")       \* L in options
        ELSE IF letters # <<>> /\ options.t # "dict" THEN Throw("TypeError")  \* options[L]
        ELSE IF Len(letters) < min_options
        THEN Skip([Reason(q_idx, "requires options") EXCEPT
                      !.qt = Upper(qt_raw), !.min = min_options, !.found = Len(letters)])
        ELSE IF ans.out = "raise" THEN Throw(ans.exc)
        ELSE IF ans.out = "skip" THEN Skip(ans.reason)
        ELSE IF rats.t # "dict" THEN Throw("AttributeError")    \* .get on the rationales value
        ELSE IF question_text # <<>> /\ choices # <<>> /\ ans.set # {}
        THEN IF search.t # "str" THEN Throw("AttributeError")   \* .strip()
             ELSE Accept([q |-> question_text,
                          type |-> IF is_sata THEN "sata" ELSE "mcq",
                          choices |-> choices,
                          correct_set |-> SortedLetters(ans.set),
                          rationales |->
                              IF "correct" \in DOMAIN rats.d /\ Cardinality(ans.set) = 1
                              THEN [L \in Range(letters) |->
                                       IF L \in ans.set
                                       THEN Fmt(GetJ(rats, "correct", JStr(<<>>)))
                                       ELSE rationales_map[L]]
                              ELSE rationales_map,
                          search_term |-> Strip(search.s)])
        ELSE Skip(Reason(q_idx, "Missing question_text, choices, or correct answers"))

\* lines 149-212, entered when the CSV parse accepted nothing
JsonFallback(t) ==
    LET data == t.doc
        qs == Iter(GetJ(data, "questions", JList(<<>>)))
        outs == [k \in 1..Len(qs.items) |-> JsonQuestion(qs.items[k], k)]
    IN  IF t.fmt # "json"
        THEN Returned(<<>>, Msg("Invalid JSON format.", <<>>, <<>>))
        ELSE IF data.t # "dict" \/ ~Contains(data, "questions")
        THEN Returned(<<>>, Msg("JSON does not contain 'questions' list.", <<>>, <<>>))
        ELSE IF ~qs.ok
        THEN Raised("TypeError")                                \* enumerate(non-iterable)
        ELSE Collect(outs, "Parsed successfully", "No valid questions parsed from JSON.", <<>>)

\* lines 144-212 given the outcome c of the tabular parse and the outcome j
\* the fallback has when it is entered
PreferCsv(c, j) ==
    IF c.exc # "none" THEN [ret |-> c, flag |-> "keep"]
    ELSE IF c.parsed # <<>> THEN [ret |-> c, flag |-> "csv"]
    ELSE [ret |-> j, flag |-> IF j.exc = "none" /\ j.parsed # <<>> THEN "json" ELSE "keep"]

\* parse_questions as it would be if it consulted the format recorded by
\* the previous call before trying the tabular parse
parse_questions_by_flag(t) ==
    IF raw_format # "json" THEN PreferCsv(parse_questions_from_csv(t), JsonFallback(t))
    ELSE PreferCsv(Returned(<<>>, Msg("", <<>>, <<>>)), JsonFallback(t))

\* the body of parse_questions: the value it returns (or the exception) and
\* what it stores in st.session_state["raw_format"] ("keep": nothing)
parse_questions(t) == PreferCsv(parse_questions_from_csv(t), JsonFallback(t))

-----------------------------------------------------------------------------
(* Input texts *)

FullHeader ==
    <<Col("question_type"), Col("question"),
      OptionCol("A"), OptionCol("B"), OptionCol("C"), OptionCol("D"), OptionCol("E"), OptionCol("F"),
      Col("correct_answer"), Col("correct_answers"),
      RationaleCol("A"), RationaleCol("B"), RationaleCol("C"), RationaleCol("D"),
      RationaleCol("E"), RationaleCol("F"), Col("youtube_search_term")>>

Without(hdr, names) == SelectSeq(hdr, LAMBDA n : n \notin names)

\* the same header as the generator may write it: capitals, trailing blank
CasedHeader(hdr) == <<<<"Question_Type", " ">>>> \o Tail(hdr)

Headers ==
    { FullHeader,
      CasedHeader(Without(FullHeader, {RationaleCol("E"), RationaleCol("F")})),
      Without(FullHeader, {OptionCol("F")}),
      Without(FullHeader, {Col("correct_answers")}) }

LetterNo(L) == CHOOSE i \in 1..Len(all_letters) : all_letters[i] = L

\* the cell a data row holds in the column named n
CellFor(n, p) ==
    IF n = Col("question_type") THEN p.qt
    ELSE IF n = Col("question") THEN p.q
    ELSE IF n = Col("correct_answer") THEN p.ca
    ELSE IF n = Col("correct_answers") THEN p.cas
    ELSE IF n = Col("youtube_search_term") THEN <<"term">>
    ELSE IF n[1] = "option_"
    THEN (IF LetterNo(UpperTok(n[2])) <= p.n THEN <<"\"", "x", " ", "\"">> ELSE <<" ">>)
    ELSE (IF LetterNo(UpperTok(n[2])) <= p.n THEN <<"r">> ELSE <<>>)

Cell == [qt : {<<"mcq">>, <<"SATA">>}, q : {<<"Q">>, <<"nbsp">>}, n : {3, 4, 6},
         ca : {<<>>, <<"A">>, <<"Z">>, <<"e", " ">>},
         cas : {<<>>, <<"A", ";", "C", ";", "Z">>, <<"Z">>, <<"a", ",", " ", "f">>}]

\* data rows written under the full header
RowParams ==
    { p \in Cell :
        \/ p.qt = <<"mcq">> /\ p.q = <<"Q">> /\ p.n = 4 /\ p.ca = <<"A">> /\ p.cas = <<>>
        \/ p.qt = <<"mcq">> /\ p.q = <<"Q">> /\ p.n = 4 /\ p.ca \in {<<>>, <<"Z">>} /\ p.cas = <<"A", ";", "C", ";", "Z">>
        \/ p.qt = <<"mcq">> /\ p.q = <<"Q">> /\ p.n = 6 /\ p.ca = <<"e", " ">> /\ p.cas = <<>>
        \/ p.qt = <<"mcq">> /\ p.q = <<"Q">> /\ p.n = 3 /\ p.ca = <<"A">> /\ p.cas = <<>>
        \/ p.qt = <<"SATA">> /\ p.q = <<"Q">> /\ p.n = 6 /\ p.ca = <<>> /\ p.cas # <<"Z">>
        \/ p.qt = <<"SATA">> /\ p.q = <<"Q">> /\ p.n = 6 /\ p.ca = <<"A">> /\ p.cas \in {<<>>, <<"Z">>}
        \/ p.qt = <<"SATA">> /\ p.q = <<"Q">> /\ p.n = 3 /\ p.ca = <<>> /\ p.cas = <<"A", ";", "C", ";", "Z">>
        \/ p.qt = <<"mcq">> /\ p.q = <<"nbsp">> /\ p.n = 4 /\ p.ca = <<"A">> /\ p.cas = <<>> }

\* data rows written under the other headers
FewParams ==
    { p \in RowParams :
        \/ p.qt = <<"mcq">> /\ p.n = 4 /\ p.ca = <<"A">>
        \/ p.qt = <<"SATA">> /\ p.n = 6 /\ p.ca = <<>> /\ p.cas = <<"A", ";", "C", ";", "Z">> }

DataRow(hdr, p) == [i \in 1..Len(hdr) |-> CellFor(Lower(Strip(hdr[i])), p)]

SampleParams == [qt |-> <<"mcq">>, q |-> <<"Q">>, n |-> 4, ca |-> <<"A">>, cas |-> <<>>]

\* the lines that can follow the header hdr: well-formed and malformed data
\* rows, a row cut short, a row of empty cells, a row with surplus cells,
\* a row of two empty cells
RowsFor(hdr) ==
    { DataRow(hdr, p) : p \in IF hdr = FullHeader THEN RowParams ELSE FewParams }
    \cup { SubSeq(DataRow(hdr, SampleParams), 1, 3) }
    \cup (IF hdr = FullHeader
          THEN { [i \in 1..Len(hdr) |-> <<>>], DataRow(hdr, SampleParams) \o <<<<"extra">>>>,
                 <<<<>>, <<" ">>>> }
          ELSE {})

SeqsUpTo(S, n) == UNION { [1..k -> S] : k \in 0..n }

Prose == <<<<"Here", " ", "are", " ", "the", " ", "questions">>>>

\* a text given by its lines
RawText(lines) ==
    [fmt |-> "lines", fenced |-> \E i \in 1..Len(lines) : IsFenceMark(lines[i]),
     lines |-> lines, doc |-> JNull]

\* the lines as they are, or inside a fenced block that follows a line of prose
LinesText(fenced, lines) ==
    RawText(IF fenced THEN <<Prose, FenceOpen>> \o lines \o <<FenceClose>> ELSE lines)

JsonText(fenced, doc) == [fmt |-> "json", fenced |-> fenced, lines |-> <<>>, doc |-> doc]

CsvTexts ==
    UNION { { LinesText(FALSE, <<hdr>> \o rows) : rows \in SeqsUpTo(RowsFor(hdr), MaxRows) } :
              hdr \in Headers }
    \cup { LinesText(TRUE, <<FullHeader, DataRow(FullHeader, p)>>) : p \in FewParams }
    \cup { LinesText(FALSE, rows) : rows \in SeqsUpTo({<<>>, <<<<" ">>>>, Prose}, MaxRows) }

Absent == [t |-> "absent"]

QKeys == {"question_text", "question_type", "options", "correct_answer", "correct_answers",
          "rationales", "search_term"}

\* the decoded question object that has exactly the fields p gives a value
JQ(p) == JDict([k \in { k \in QKeys : p[k] # Absent } |-> p[k]])

Opts(n, text) == JDict([L \in { all_letters[i] : i \in 1..n } |-> JStr(text)])

JAll == [question_text |-> JStr(<<"Q">>), question_type |-> JStr(<<"mcq">>),
         options |-> Opts(4, <<"x">>), correct_answer |-> JStr(<<"A">>),
         correct_answers |-> Absent, rationales |-> Absent, search_term |-> Absent]

JSata == [JAll EXCEPT !.question_type = JStr(<<"SATA">>), !.options = Opts(6, <<"x">>),
                      !.correct_answer = Absent]

Rats == JDict([k \in {"B", "correct"} |-> JStr(<<k, "!">>)])

JParams ==
    { [JAll EXCEPT !.options = o] : o \in {Opts(4, <<"x">>), Opts(4, <<>>), Opts(3, <<"x">>)} }
    \cup { [JAll EXCEPT !.correct_answer = ca] :
              ca \in {JStr(<<"Z">>), JStr(<<" ", "a">>), Absent, JNum} }
    \cup { [JAll EXCEPT !.question_type = Absent, !.rationales = r] : r \in {Rats, JStr(<<"r">>)} }
    \cup { [JAll EXCEPT !.question_text = Absent],
           [JAll EXCEPT !.options = JStr(<<"A", "B", "C", "D">>)],
           [JAll EXCEPT !.options = Opts(6, <<"x">>), !.correct_answers = JList(<<JStr(<<"A">>)>>)] }
    \cup { [JSata EXCEPT !.correct_answers = cas] :
              cas \in { JList(<<JStr(<<"A">>), JStr(<<" ", "c">>), JStr(<<"Z">>)>>),
                        JList(<<JStr(<<"Z">>)>>), JStr(<<"A", "C">>), JNull } }
    \cup { [JSata EXCEPT !.correct_answer = JStr(<<"A">>)],
           [JSata EXCEPT !.question_type = Absent, !.options = Opts(4, <<"x">>),
                         !.correct_answers = JList(<<JStr(<<"A">>), JStr(<<"C">>)>>)],
           [JSata EXCEPT !.correct_answers = JList(<<JStr(<<"b">>)>>), !.rationales = Rats] }

JQuestions == { JQ(p) : p \in JParams } \cup { JNum }

JsonDocs ==
    { JDict([k \in {"questions"} |-> JList(qs)]) : qs \in SeqsUpTo(JQuestions, MaxRows) }
    \cup { JDict([k \in {"questions"} |-> JNum]), JDict(EmptyDict), JList(<<JNum>>) }

JsonTexts ==
    { JsonText(FALSE, d) : d \in JsonDocs }
    \cup { JsonText(TRUE, JDict([k \in {"questions"} |-> JList(<<JQ(JAll)>>)])) }

Texts == CsvTexts \cup JsonTexts

-----------------------------------------------------------------------------
(* Calls *)

NoRet == Returned(<<>>, Msg("", <<>>, <<>>))

NoMemo == [t \in {} |-> NoRet]

Remember(memo, t, r) == IF t \in DOMAIN memo THEN memo ELSE (t :> r) @@ memo

\* parse_questions behind @st.cache_data: a text seen before returns the
\* stored value without running the body; an exception stores nothing
RunOrReplay(t, r, c) ==
    IF t \in DOMAIN cache
    THEN /\ ret' = cache[t]
         /\ UNCHANGED <<raw_format, cache, seen_csv>>
         /\ seen_pq' = Remember(seen_pq, t, cache[t])
    ELSE /\ ret' = r.ret
         /\ raw_format' = IF r.flag = "keep" THEN raw_format ELSE r.flag
         /\ cache' = IF r.ret.exc = "none" THEN (t :> r.ret) @@ cache ELSE cache
         /\ seen_pq' = Remember(seen_pq, t, r.ret)
         /\ seen_csv' = Remember(seen_csv, t, c)

CallParseQuestions(t) == RunOrReplay(t, parse_questions(t), parse_questions_from_csv(t))

\* parse_questions_from_csv called directly (the "Parse CSV" debug button)
ReturnCsv(t, c) ==
    /\ ret' = c
    /\ seen_csv' = Remember(seen_csv, t, c)
    /\ UNCHANGED <<raw_format, cache, seen_pq>>

CallParseCsv(t) == ReturnCsv(t, parse_questions_from_csv(t))

-----------------------------------------------------------------------------
(* batched_generate_questions *)

batch_size == 2

Min(a, b) == IF a < b THEN a ELSE b

\* a line that str.strip() removes at either end of a text
IsSpaceLine(line) == Len(line) = 0 \/ (Len(line) = 1 /\ Strip(line[1]) = <<>>)

RECURSIVE LStripLines(_)
LStripLines(ls) == IF ls # <<>> /\ IsSpaceLine(Head(ls)) THEN LStripLines(Tail(ls)) ELSE ls

RECURSIVE RStripLines(_)
RStripLines(ls) ==
    IF ls # <<>> /\ IsSpaceLine(ls[Len(ls)]) THEN RStripLines(SubSeq(ls, 1, Len(ls) - 1)) ELSE ls

\* out.strip().splitlines()
StripText(ls) ==
    LET core == RStripLines(LStripLines(ls))
        first == [core EXCEPT ![1][1] = LStrip(@, Whitespace)]
    IN  IF core = <<>> THEN <<>>
        ELSE [first EXCEPT ![Len(first)][Len(first[Len(first)])] = RStrip(@, Whitespace)]

\* l.lower().startswith("question_type,")
StartsWithHeader(line) == Len(line) >= 2 /\ Lower(line[1]) = Col("question_type")

\* lines 376-383: the first chunk whole, the later chunks without their header lines
RECURSIVE MergeFrom(_, _)
MergeFrom(outs, i) ==
    IF i > Len(outs) THEN <<>>
    ELSE (IF i = 1 THEN outs[i] ELSE SelectSeq(outs[i], LAMBDA l : ~StartsWithHeader(l)))
         \o MergeFrom(outs, i + 1)

Merged(outs) == MergeFrom(outs, 1)

\* the batch loop is not running
NoBatch ==
    /\ num_questions = 0
    /\ all_outputs = <<>>
    /\ questions_remaining = 0
    /\ batch_idx = 0

NoGen == [k \in {} |-> <<>>]

\* st.session_state as init_session_state leaves it, no retry loop running,
\* nothing generated yet
NoQuiz ==
    /\ questions = <<>>
    /\ q_index = 0
    /\ answered = FALSE
    /\ selected_letters = <<>>
    /\ score = 0
    /\ scored_questions = {}
    /\ expected_count = 0
    /\ topic = <<>>
    /\ attempt = 0
    /\ attempts_log = <<>>
    /\ failed_shown = FALSE
    /\ gen_cache = NoGen

-----------------------------------------------------------------------------
(* Spec: each parser applied once to an arbitrary text, in a fresh process *)

Init ==
    /\ output_text \in Texts
    /\ pc = "start"
    /\ ret = NoRet
    /\ raw_format = "unknown"
    /\ cache = NoMemo
    /\ seen_pq = NoMemo
    /\ seen_csv = NoMemo
    /\ NoBatch
    /\ NoQuiz

ParseCsv ==
    /\ pc = "start"
    /\ pc' = "csv"
    /\ CallParseCsv(output_text)
    /\ UNCHANGED <<output_text, batchVars, quizVars>>

ParseQuestions ==
    /\ pc = "start"
    /\ pc' = "pq"
    /\ CallParseQuestions(output_text)
    /\ UNCHANGED <<output_text, batchVars, quizVars>>

Next == ParseCsv \/ ParseQuestions

Spec == Init /\ [][Next]_vars

-----------------------------------------------------------------------------
(* SpecSession: one server process, whose cache outlives the browser        *)
(* sessions; any sequence of parser calls on a few texts                    *)

CsvOkText == LinesText(FALSE, <<FullHeader, DataRow(FullHeader, SampleParams)>>)

CsvRejectedText ==
    LinesText(FALSE, <<FullHeader, SubSeq(DataRow(FullHeader, SampleParams), 1, 3),
                       DataRow(FullHeader, [SampleParams EXCEPT !.ca = <<"Z">>])>>)

CsvRaisingText == LinesText(FALSE, <<Without(FullHeader, {OptionCol("F")}),
                                     DataRow(Without(FullHeader, {OptionCol("F")}), SampleParams)>>)

JsonOkText == JsonText(TRUE, JDict([k \in {"questions"} |-> JList(<<JQ(JAll)>>)]))

BlankText == LinesText(FALSE, <<>>)

SampleTexts == {CsvOkText, CsvRejectedText, CsvRaisingText, JsonOkText, BlankText}

InitSession ==
    /\ output_text = BlankText
    /\ pc = "start"
    /\ ret = NoRet
    /\ raw_format = "unknown"
    /\ cache = NoMemo
    /\ seen_pq = NoMemo
    /\ seen_csv = NoMemo
    /\ NoBatch
    /\ NoQuiz

\* questions, parse_error = parse_questions(output_text)   (lines 402, 562)
SessionParseQuestions ==
    \E t \in SampleTexts :
        /\ output_text' = t
        /\ pc' = "pq"
        /\ CallParseQuestions(t)
        /\ UNCHANGED <<batchVars, quizVars>>

\* the "Parse CSV" button (lines 591-593)
SessionParseCsv ==
    \E t \in SampleTexts :
        /\ ~TextIsBlank(t)
        /\ output_text' = t
        /\ pc' = "csv"
        /\ CallParseCsv(t)
        /\ UNCHANGED <<batchVars, quizVars>>

\* a new browser session: init_session_state fills an empty session_state,
\* the st.cache_data memo belongs to the process and stays
NewSession ==
    /\ raw_format' = "unknown"
    /\ pc' = "start"
    /\ ret' = NoRet
    /\ output_text' = BlankText
    /\ UNCHANGED <<cache, seen_pq, seen_csv, batchVars, quizVars>>

NextSession == SessionParseQuestions \/ SessionParseCsv \/ NewSession

SpecSession == InitSession /\ [][NextSession]_vars

-----------------------------------------------------------------------------
(* SpecBatch: one call of batched_generate_questions, batch by batch, and   *)
(* the parse_questions call that takes its result (lines 401-402, 561-562)  *)

\* what generate_questions can return for one batch: tabular text, bare or
\* fenced or after a line of prose, the header alone, an error string
ValidMcqRow == DataRow(FullHeader, SampleParams)

ValidSataRow ==
    DataRow(FullHeader, [qt |-> <<"SATA">>, q |-> <<"Q">>, n |-> 6, ca |-> <<>>,
                         cas |-> <<"A", ";", "C", ";", "Z">>])

ApiError == <<<<"Error:", " ", "API", " ", "quota", " ", "exceeded.">>>>

BatchOutputs ==
    { <<FullHeader, ValidMcqRow>>,
      <<FullHeader, ValidSataRow, <<>>>>,
      <<FenceOpen, FullHeader, ValidMcqRow, FenceClose>>,
      <<Prose, FullHeader, ValidSataRow>>,
      <<CasedHeader(FullHeader), ValidSataRow>>,
      <<FullHeader, SubSeq(ValidMcqRow, 1, 3), ValidMcqRow>>,
      <<FullHeader>>,
      <<ApiError>> }

InitBatch ==
    /\ num_questions \in 1..MaxBatchQuestions
    /\ all_outputs = <<>>
    /\ questions_remaining = num_questions
    /\ batch_idx = 0
    /\ output_text = BlankText
    /\ pc = "batch"
    /\ ret = NoRet
    /\ raw_format = "unknown"
    /\ cache = NoMemo
    /\ seen_pq = NoMemo
    /\ seen_csv = NoMemo
    /\ NoQuiz

\* one iteration of the while loop (lines 369-374)
GenerateBatch ==
    /\ pc = "batch"
    /\ questions_remaining > 0
    /\ \E out \in BatchOutputs :
          all_outputs' = Append(all_outputs, StripText(out))
    /\ questions_remaining' = questions_remaining - Min(batch_size, questions_remaining)
    /\ batch_idx' = batch_idx + 1
    /\ UNCHANGED <<parserVars, num_questions, quizVars>>

\* the merge and the return (lines 376-383)
MergeBatches ==
    /\ pc = "batch"
    /\ questions_remaining <= 0
    /\ output_text' = RawText(Merged(all_outputs))
    /\ pc' = "merged"
    /\ UNCHANGED <<ret, raw_format, cache, seen_pq, seen_csv, batchVars, quizVars>>

\* parse_questions(output_text) on the merged text
ParseMerged ==
    /\ pc = "merged"
    /\ pc' = "pq"
    /\ CallParseQuestions(output_text)
    /\ UNCHANGED <<output_text, batchVars, quizVars>>

NextBatch == GenerateBatch \/ MergeBatches \/ ParseMerged

SpecBatch == InitBatch /\ [][NextBatch]_vars

-----------------------------------------------------------------------------
(* SpecQuiz: one browser session of the quiz.  Every user event reruns the  *)
(* script; pc = "ui" between runs, "loop" inside the retry loop of the      *)
(* settings handler, "render" when the run goes on to display the question. *)
(* The topic, difficulty and SATA percentage keep one value, so the memo of *)
(* generate_questions is keyed by the batch size and the batch number.      *)

max_attempts == 3

Topics == {<<>>, <<" ">>, <<"HF">>}

\* what generate_questions can return for one batch
QuizOutputs ==
    { <<FullHeader, ValidMcqRow, ValidSataRow>>,
      <<FullHeader, SubSeq(ValidMcqRow, 1, 3), ValidMcqRow>>,
      <<Without(FullHeader, {OptionCol("F")}), DataRow(Without(FullHeader, {OptionCol("F")}), SampleParams)>>,
      <<ApiError>> }

\* the n of each batch of the while loop (lines 367-374)
RECURSIVE BatchSizes(_)
BatchSizes(remaining) ==
    IF remaining <= 0 THEN <<>>
    ELSE <<Min(batch_size, remaining)>> \o BatchSizes(remaining - Min(batch_size, remaining))

GenKey(sizes, i) == <<sizes[i], i - 1>>

\* generate_questions behind @st.cache_data: a batch asked for before
\* returns the stored text
FromCache(sizes, outs) ==
    \A i \in 1..Len(sizes) :
        GenKey(sizes, i) \in DOMAIN gen_cache => outs[i] = gen_cache[GenKey(sizes, i)]

CacheAfter(sizes, outs) ==
    [k \in DOMAIN gen_cache \cup { GenKey(sizes, i) : i \in 1..Len(sizes) } |->
        IF k \in DOMAIN gen_cache THEN gen_cache[k]
        ELSE outs[CHOOSE i \in 1..Len(sizes) : GenKey(sizes, i) = k]]

\* one call of batched_generate_questions(num): the state it leaves
BatchedGenerate(num) ==
    \E outs \in [1..Len(BatchSizes(num)) -> QuizOutputs] :
        /\ FromCache(BatchSizes(num), outs)
        /\ gen_cache' = CacheAfter(BatchSizes(num), outs)
        /\ all_outputs' = [i \in 1..Len(outs) |-> StripText(outs[i])]
        /\ output_text' = RawText(Merged([i \in 1..Len(outs) |-> StripText(outs[i])]))
        /\ questions_remaining' = 0
        /\ batch_idx' = Len(outs)

\* str(e) of the exceptions the parsers raise, word by word
ErrorText(exc) ==
    IF exc = "AttributeError"
    THEN <<"'NoneType'", "object", "has", "no", "attribute", "'strip'">>
    ELSE <<"'int'", "object", "is", "not", "iterable">>

\* "quota" in error_msg.lower() or "rate" in error_msg.lower()
MentionsQuotaOrRate(words) == \E i \in 1..Len(words) : LowerTok(words[i]) \in {"quota", "rate"}

\* scored_questions.get(q_index, False) taken to be always False
AlreadyScored_never(scored, qi) == FALSE

\* st.session_state.scored_questions.get(q_index, False)
AlreadyScored(scored, qi) == qi \in scored

\* the "Display results" block (lines 480-489): score and scored_questions after it
Display(qs, qi, ans, sel, sc, scored) ==
    IF qs # <<>> /\ qi \in 0..(Len(qs) - 1) /\ ans /\ ~AlreadyScored(scored, qi)
    THEN [score |-> IF Range(sel) = Range(qs[qi + 1].correct_set) THEN sc + 1 ELSE sc,
          scored |-> scored \cup {qi}]
    ELSE [score |-> sc, scored |-> scored]

\* the current question is on the page (lines 440-442)
Shown == pc = "ui" /\ questions # <<>> /\ q_index \in 0..(Len(questions) - 1)

\* what the user can tick before pressing Submit: nothing, the right
\* answer, the second option alone
Selections(q) == {<<>>, q.correct_set, <<q.choices[2].letter>>}

InitQuiz ==
    /\ output_text = BlankText
    /\ pc = "ui"
    /\ ret = NoRet
    /\ raw_format = "unknown"
    /\ cache = NoMemo
    /\ seen_pq = NoMemo
    /\ seen_csv = NoMemo
    /\ NoBatch
    /\ NoQuiz

\* "Generate Questions" pressed (lines 385-397): a blank topic stops the run
SubmitSettings ==
    /\ pc = "ui"
    /\ \E tp \in Topics, n \in 1..MaxQuestions :
          IF Strip(tp) = <<>>
          THEN UNCHANGED vars
          ELSE /\ topic' = tp
               /\ num_questions' = n
               /\ attempt' = 0
               /\ attempts_log' = <<>>
               /\ failed_shown' = FALSE
               /\ pc' = "loop"
               /\ UNCHANGED <<output_text, ret, raw_format, cache, seen_pq, seen_csv,
                              all_outputs, questions_remaining, batch_idx,
                              questions, q_index, answered, selected_letters, score,
                              scored_questions, expected_count, gen_cache>>

\* one iteration of the retry loop (lines 398-435)
Attempt ==
    /\ pc = "loop"
    /\ attempt < max_attempts
    /\ BatchedGenerate(num_questions)
    /\ CallParseQuestions(output_text')
    /\ LET raised == ret'.exc # "none"
           got == ~raised /\ ret'.parsed # <<>>
           fewer == Len(ret'.parsed) < num_questions
           retry == ret'.msg.incomplete # <<>> /\ attempt < max_attempts - 1
           quota == raised /\ MentionsQuotaOrRate(ErrorText(ret'.exc))
           breaks == quota \/ (got /\ ~(fewer /\ retry))
       IN  /\ IF got
              THEN /\ questions' = ret'.parsed
                   /\ q_index' = 0
                   /\ answered' = FALSE
                   /\ selected_letters' = <<>>
                   /\ score' = 0
                   /\ scored_questions' = {}
                   /\ expected_count' = num_questions
              ELSE UNCHANGED <<questions, q_index, answered, selected_letters, score,
                               scored_questions, expected_count>>
           /\ attempts_log' = Append(attempts_log,
                                     [asked |-> num_questions,
                                      n |-> Len(ret'.parsed),
                                      quota |-> quota \/ \E i \in 1..Len(all_outputs') :
                                                            all_outputs'[i] = <<ApiError>>,
                                      stored |-> got,
                                      broke |-> breaks])
           /\ IF breaks
              THEN pc' = "render" /\ attempt' = attempt
              ELSE pc' = "loop" /\ attempt' = attempt + 1
    /\ UNCHANGED <<num_questions, topic, failed_shown>>

\* the else clause of the for loop (lines 436-437)
LoopElse ==
    /\ pc = "loop"
    /\ attempt >= max_attempts
    /\ failed_shown' = TRUE
    /\ pc' = "render"
    /\ UNCHANGED <<output_text, ret, raw_format, cache, seen_pq, seen_csv, batchVars,
                   questions, q_index, answered, selected_letters, score, scored_questions,
                   expected_count, topic, attempt, attempts_log, gen_cache>>

\* the rest of the run of the settings handler: the question is displayed
Render ==
    /\ pc = "render"
    /\ pc' = "ui"
    /\ score' = Display(questions, q_index, answered, selected_letters, score, scored_questions).score
    /\ scored_questions' =
          Display(questions, q_index, answered, selected_letters, score, scored_questions).scored
    /\ UNCHANGED <<output_text, ret, raw_format, cache, seen_pq, seen_csv, batchVars,
                   questions, q_index, answered, selected_letters,
                   expected_count, topic, attempt, attempts_log, failed_shown, gen_cache>>

\* "Submit" of the question form (lines 470-489)
SubmitAnswer ==
    /\ Shown
    /\ \E sel \in Selections(questions[q_index + 1]) :
          LET ans == IF sel = <<>> THEN answered ELSE TRUE
              chosen == IF sel = <<>> THEN selected_letters ELSE sel
          IN  /\ answered' = ans
              /\ selected_letters' = chosen
              /\ score' = Display(questions, q_index, ans, chosen, score, scored_questions).score
              /\ scored_questions' =
                    Display(questions, q_index, ans, chosen, score, scored_questions).scored
    /\ UNCHANGED <<parserVars, batchVars, questions, q_index, expected_count, topic,
                   attempt, attempts_log, failed_shown, gen_cache>>

\* "Next Question" (lines 522-527)
NextQuestion ==
    /\ Shown
    /\ answered
    /\ q_index < Len(questions) - 1
    /\ q_index' = q_index + 1
    /\ answered' = FALSE
    /\ selected_letters' = <<>>
    /\ UNCHANGED <<parserVars, batchVars, questions, score, scored_questions, expected_count,
                   topic, attempt, attempts_log, failed_shown, gen_cache>>

\* "Start New Quiz" (lines 533-542)
StartNewQuiz ==
    /\ Shown
    /\ answered
    /\ questions' = <<>>
    /\ q_index' = 0
    /\ answered' = FALSE
    /\ selected_letters' = <<>>
    /\ score' = 0
    /\ scored_questions' = {}
    /\ expected_count' = 0
    /\ UNCHANGED <<parserVars, batchVars, topic, attempt, attempts_log, failed_shown, gen_cache>>

\* "Generate N more question(s)" (lines 545-571)
GenerateMore ==
    /\ Shown
    /\ Len(questions) < expected_count
    /\ topic # <<>>
    /\ num_questions' = expected_count - Len(questions)
    /\ BatchedGenerate(num_questions')
    /\ CallParseQuestions(output_text')
    /\ IF ret'.exc = "none" /\ ret'.parsed # <<>>
       THEN /\ questions' = questions \o ret'.parsed
            /\ expected_count' = Len(questions) + Len(ret'.parsed)
       ELSE UNCHANGED <<questions, expected_count>>
    /\ UNCHANGED <<pc, q_index, answered, selected_letters, score, scored_questions, topic,
                   attempt, attempts_log, failed_shown>>

NextQuiz ==
    \/ SubmitSettings
    \/ Attempt
    \/ LoopElse
    \/ Render
    \/ SubmitAnswer
    \/ NextQuestion
    \/ StartNewQuiz
    \/ GenerateMore

SpecQuiz == InitQuiz /\ [][NextQuiz]_vars

-----------------------------------------------------------------------------
(* Vocabulary of the properties: the records of a text, read field by      *)
(* field as the specification describes them                                *)

Called == pc # "start"

HasReturned == Called /\ ret.exc = "none"

\* the header of a tabular text is in place: found, with the four required names
HeaderOkIn(lines) ==
    /\ HeaderIdx(lines) > 0
    /\ RequiredCols \subseteq Range(HeaderLower(lines[HeaderIdx(lines)]))

CsvHeaderOk(t) == t.fmt = "lines" /\ HeaderOkIn(CleanLines(t))

HeaderOfLines(lines) == HeaderLower(lines[HeaderIdx(lines)])

CsvHeaderOf(t) == HeaderOfLines(CleanLines(t))

\* every data row after the header line
DataRowsIn(lines) ==
    IF HeaderOkIn(lines) THEN SubSeq(lines, HeaderIdx(lines) + 1, Len(lines)) ELSE <<>>

CsvDataRows(t) == DataRowsIn(CleanLines(t))

\* the rows that reach validation, as field maps, numbered as the reasons number them
CsvRecords(t) ==
    LET rows == SelectSeq(CsvDataRows(t),
                          LAMBDA r : ~RowIsBlank(r) /\ Len(r) >= Len(CsvHeaderOf(t)))
    IN  [k \in 1..Len(rows) |-> RowDict(CsvHeaderOf(t), SubSeq(rows[k], 1, Len(CsvHeaderOf(t))))]

\* the elements of the questions list of a nested text
JsonRecords(t) ==
    IF t.fmt = "json" /\ t.doc.t = "dict" /\ Contains(t.doc, "questions")
       /\ Iter(t.doc.d["questions"]).ok
    THEN Iter(t.doc.d["questions"]).items
    ELSE <<>>

\* the message in ret is the one of the tabular parser / of the nested parser
CsvReport == pc = "csv" \/ (pc = "pq" /\ output_text.fmt = "lines" /\ ret.parsed # <<>>)

JsonReport == pc = "pq" /\ output_text.fmt = "json"

\* the records the report in ret is about
Records ==
    IF ~HasReturned THEN <<>>
    ELSE IF CsvReport THEN CsvRecords(output_text)
    ELSE IF JsonReport THEN JsonRecords(output_text)
    ELSE <<>>

SkippedIdx == { ret.msg.skipped[i].row : i \in 1..Len(ret.msg.skipped) }

\* the records without a skip reason, in order: the k-th is the k-th accepted question
AcceptedIdx == SelectSeq(Idx(Len(Records)), LAMBDA k : k \notin SkippedIdx)

ReasonOf(k) == ret.msg.skipped[CHOOSE i \in 1..Len(ret.msg.skipped) : ret.msg.skipped[i].row = k]

Letters(q) == { q.choices[j].letter : j \in 1..Len(q.choices) }

\* a record read as the specification reads it: type label, offered
\* letters, stem, single-answer field, tokens of the multi-answer field
RecIsSata(r) ==
    IF output_text.fmt = "lines"
    THEN Lower(r[Col("question_type")]) \in SataNames
    ELSE \/ Lower(GetJ(r, "question_type", JStr(<<>>)).s) \in SataNames
         \/ GetJ(r, "correct_answers", JNull).t = "list"

RecOffered(r) ==
    IF output_text.fmt = "lines"
    THEN { L \in Range(all_letters) :
             OptionCol(L) \in DOMAIN r /\ Strip(StripChars(Strip(r[OptionCol(L)]), {"\""})) # <<>> }
    ELSE IF GetJ(r, "options", JDict(EmptyDict)).t = "dict"
         THEN { L \in Range(all_letters) : L \in DOMAIN GetJ(r, "options", JDict(EmptyDict)).d }
         ELSE {}

RecHasStem(r) ==
    IF output_text.fmt = "lines"
    THEN Strip(StripChars(Strip(r[Col("question")]), {"\""})) # <<>>
    ELSE Strip(GetJ(r, "question_text", JStr(<<>>)).s) # <<>>

\* the single-answer field, trimmed and upper-cased
RecSingle(r) ==
    IF output_text.fmt = "lines"
    THEN Upper(Strip(r[Col("correct_answer")]))
    ELSE Upper(Strip(GetJ(r, "correct_answer", JStr(<<>>)).s))

\* the maximal separator-free pieces of a string, upper-cased
TokensOf(f) ==
    LET ij == { p \in (1..Len(f)) \X (1..Len(f)) :
                  /\ p[1] <= p[2]
                  /\ \A n \in p[1]..p[2] : f[n] \notin SepChars
                  /\ (p[1] = 1 \/ f[p[1] - 1] \in SepChars)
                  /\ (p[2] = Len(f) \/ f[p[2] + 1] \in SepChars) }
    IN  { Upper(SubSeq(f, p[1], p[2])) : p \in ij }

\* the upper-cased tokens of the multi-answer field
RecMultiTokens(r) ==
    IF output_text.fmt = "lines"
    THEN TokensOf(r[Col("correct_answers")])
    ELSE LET v == GetJ(r, "correct_answers", JList(<<>>))
         IN  CASE v.t = "list" -> { Upper(Strip(v.items[i].s)) : i \in 1..Len(v.items) }
               [] v.t = "str"  -> TokensOf(v.s)
               [] OTHER        -> {}

NamesOffered(s, r) == \E L \in RecOffered(r) : s = <<L>>

AnswerReasons == {"Invalid correct_answer", "No valid correct_answer or correct_answers"}


PosOf(k) == CHOOSE j \in 1..Len(AcceptedIdx) : AcceptedIdx[j] = k

\* every record the called parser was given: the data rows of a tabular
\* text, and for parse_questions the elements of a nested text
AllRecords ==
    IF output_text.fmt = "lines" THEN CsvDataRows(output_text)
    ELSE IF pc = "pq" THEN JsonRecords(output_text)
    ELSE <<>>

NothingLocated == {"Empty input text.", "No valid CSV header found.", "Invalid JSON format.",
                   "JSON does not contain 'questions' list."}

-----------------------------------------------------------------------------
(* Properties *)

\* C1: every question a parser returns has a correct_set that is not empty
\* and holds only letters of the question's own choices.
C1_CorrectSetWithinChoices ==
    Called =>
        \A i \in 1..Len(ret.parsed) :
            /\ ret.parsed[i].correct_set # <<>>
            /\ Range(ret.parsed[i].correct_set) \subseteq Letters(ret.parsed[i])

\* a nested sata record listing A, c and Z over options A-F came back as {A, C}
C1_Witness ==
    /\ JsonReport /\ HasReturned
    /\ \E k \in 1..Len(Records) :
          /\ <<"Z">> \in RecMultiTokens(Records[k])
          /\ k \notin SkippedIdx
          /\ ret.parsed[PosOf(k)].correct_set = <<"A", "C">>

\* C2: a parser call on any text returns a (questions, message) pair; it
\* never ends in an exception.
C2_NeverRaises == Called => ret.exc = "none"

\* C3: accepted questions plus diagnostic entries (incomplete-row entries
\* and skip reasons) of the returned message account for every record of
\* the text: every data row after the header, every element of questions.
C3_EveryRecordAccounted ==
    HasReturned =>
        Len(ret.parsed) + Len(ret.msg.incomplete) + Len(ret.msg.skipped) = Len(AllRecords)

\* C4: after parse_questions returns, a text whose tabular parse accepts a
\* question has given exactly the tabular result and raw_format is "csv";
\* a non-empty result of the nested fallback leaves raw_format at "json".
C4_FormatFlag ==
    (pc = "pq" /\ HasReturned) =>
        LET c == parse_questions_from_csv(output_text)
        IN  /\ (c.exc = "none" /\ c.parsed # <<>>) => (ret = c /\ raw_format = "csv")
            /\ (c.exc = "none" /\ c.parsed = <<>> /\ ret.parsed # <<>>) => raw_format = "json"

\* C5: every accepted question has at least 4 options with non-empty text
\* when it is mcq and at least 6 when it is sata, on both paths.
C5_MinimumOptions ==
    Called =>
        \A i \in 1..Len(ret.parsed) :
            Cardinality({ j \in 1..Len(ret.parsed[i].choices) :
                            Strip(ret.parsed[i].choices[j].text) # <<>> })
                >= (IF ret.parsed[i].type = "sata" THEN MinSata ELSE MinMcq)

C7_RationalesTotal ==
    Called =>
        /\ \A i \in 1..Len(ret.parsed) : DOMAIN ret.parsed[i].rationales = Letters(ret.parsed[i])
        /\ (/\ CsvHeaderOk(output_text)
            /\ \A L \in Range(all_letters) : OptionCol(L) \in Range(CsvHeaderOf(output_text)))
           => ret.exc = "none"

\* C8: when parse_questions returns no question for a text in which the
\* tabular pass located records and rejected them all, the message it
\* returns is not one of the nothing-located messages and carries the
\* incomplete-row entries and skip reasons of that pass.
C8_RejectionsReported ==
    (pc = "pq" /\ HasReturned /\ ret.parsed = <<>>) =>
        LET c == parse_questions_from_csv(output_text)
        IN  (c.exc = "none" /\ Len(c.msg.incomplete) + Len(c.msg.skipped) > 0) =>
                /\ ret.msg.top \notin NothingLocated
                /\ ret.msg.incomplete = c.msg.incomplete
                /\ ret.msg.skipped = c.msg.skipped

\* the multi-answer field has the type the format gives it: a cell, or a
\* list of strings when it is there
MultiFieldTyped(r) ==
    output_text.fmt = "json" => GetJ(r, "correct_answers", JList(<<>>)).t = "list"

\* C9: a sata record is accepted with exactly the offered letters named by
\* the tokens of its multi-answer field, and is rejected when no token
\* names an offered letter (an empty field included).
C9_MultiAnswerSet ==
    HasReturned =>
        /\ Len(AcceptedIdx) = Len(ret.parsed)
        /\ \A k \in 1..Len(Records) :
              (RecIsSata(Records[k]) /\ MultiFieldTyped(Records[k])) =>
                  LET expected == { L \in RecOffered(Records[k]) : <<L>> \in RecMultiTokens(Records[k]) }
                  IN  /\ k \notin SkippedIdx => Range(ret.parsed[PosOf(k)].correct_set) = expected
                      /\ expected = {} => k \in SkippedIdx

\* C10: an mcq record is accepted only if its single-answer field, trimmed
\* and upper-cased, names an offered letter, and then correct_set is that
\* one letter; a record whose field names no offered letter is rejected
\* whatever correct_answers holds, and when it has a stem and four options
\* the reason is the invalid-answer or the missing-answer one.
C10_SingleAnswer ==
    HasReturned =>
        /\ Len(AcceptedIdx) = Len(ret.parsed)
        /\ \A k \in 1..Len(Records) :
              ~RecIsSata(Records[k]) =>
                  /\ k \notin SkippedIdx =>
                        /\ NamesOffered(RecSingle(Records[k]), Records[k])
                        /\ ret.parsed[PosOf(k)].correct_set = RecSingle(Records[k])
                        /\ ret.parsed[PosOf(k)].type = "mcq"
                  /\ ~NamesOffered(RecSingle(Records[k]), Records[k]) =>
                        /\ k \in SkippedIdx
                        /\ (RecHasStem(Records[k]) /\ Cardinality(RecOffered(Records[k])) >= MinMcq)
                               => ReasonOf(k).code \in AnswerReasons

\* a tabular text with an mcq row answered "e " over A-F, accepted as {E},
\* and an mcq row answered Z over A-D with correct_answers A;C;Z, rejected
C10_Witness ==
    /\ pc = "csv" /\ HasReturned
    /\ \E k \in 1..Len(Records) :
          /\ ~RecIsSata(Records[k])
          /\ k \notin SkippedIdx
          /\ Records[k][Col("correct_answer")] = <<"e", " ">>
          /\ ret.parsed[PosOf(k)].correct_set = <<"E">>
    /\ \E k \in 1..Len(Records) :
          /\ ~RecIsSata(Records[k])
          /\ RecSingle(Records[k]) = <<"Z">>
          /\ <<"A">> \in RecMultiTokens(Records[k])
          /\ k \in SkippedIdx
          /\ ReasonOf(k).code = "Invalid correct_answer"

\* the positions, among the data rows after the header, of the rows that
\* reach validation and of the rows cut short
FullPositions(t) ==
    SelectSeq(Idx(Len(CsvDataRows(t))),
              LAMBDA i : ~RowIsBlank(CsvDataRows(t)[i]) /\ Len(CsvDataRows(t)[i]) >= Len(CsvHeaderOf(t)))

ShortPositions(t) ==
    SelectSeq(Idx(Len(CsvDataRows(t))), LAMBDA i : Len(CsvDataRows(t)[i]) < Len(CsvHeaderOf(t)))

\* the row numbers a report carries, entry by entry
ReportedNumbers ==
    [i \in 1..Len(ret.msg.incomplete) |-> ret.msg.incomplete[i].row]
    \o [i \in 1..Len(ret.msg.skipped) |-> ret.msg.skipped[i].row]

\* the records that reach validation and are rejected there, in order
RejectedRecords(t) ==
    SelectSeq(Idx(Len(CsvRecords(t))), LAMBDA k : CsvRow(CsvRecords(t)[k], k).out = "skip")

\* C12: in a report of the tabular parser every entry carries the position
\* of its row among the data rows after the header: the j-th skip reason
\* carries the position of the j-th rejected record's row, an
\* incomplete-row entry the position of a short row, and no two entries of
\* one report share a row number.
C12_RowNumbers ==
    (pc = "csv" /\ HasReturned /\ CsvHeaderOk(output_text)) =>
        LET full == FullPositions(output_text)
            data == CsvDataRows(output_text)
            rejected == RejectedRecords(output_text)
        IN  /\ \A i \in 1..Len(ret.msg.incomplete) :
                  /\ ret.msg.incomplete[i].row \in 1..Len(data)
                  /\ Len(data[ret.msg.incomplete[i].row]) < Len(CsvHeaderOf(output_text))
            /\ Len(ret.msg.skipped) = Len(rejected)
            /\ \A j \in 1..Len(rejected) : ret.msg.skipped[j].row = full[rejected[j]]
            /\ Cardinality(Range(ReportedNumbers)) = Len(ReportedNumbers)

\* C13: a data row with fewer cells than the header yields no question and
\* is not padded into a record; the returned message has an incomplete-row
\* entry with its position and its cell count, and every other row is
\* still validated (accepted or given a skip reason).
C13_ShortRowReported ==
    (pc = "csv" /\ HasReturned /\ CsvHeaderOk(output_text)) =>
        LET short == ShortPositions(output_text)
            data == CsvDataRows(output_text)
        IN  /\ Len(ret.msg.incomplete) = Len(short)
            /\ \A i \in 1..Len(short) :
                  /\ ret.msg.incomplete[i].row = short[i]
                  /\ ret.msg.incomplete[i].ncols = Len(data[short[i]])
            /\ Len(ret.parsed) + Len(ret.msg.skipped)
                  = Cardinality({ i \in 1..Len(data) :
                                    ~RowIsBlank(data[i]) /\ Len(data[i]) >= Len(CsvHeaderOf(output_text)) })

\* the accepted questions of each batch output parsed on its own, concatenated
RECURSIVE ParsedFrom(_, _)
ParsedFrom(outs, i) ==
    IF i > Len(outs) THEN <<>>
    ELSE parse_questions(RawText(outs[i])).ret.parsed \o ParsedFrom(outs, i + 1)

\* the data rows of each batch output, concatenated
RECURSIVE DataRowsFrom(_, _)
DataRowsFrom(outs, i) ==
    IF i > Len(outs) THEN <<>>
    ELSE CsvDataRows(RawText(outs[i])) \o DataRowsFrom(outs, i + 1)

HeaderLines(lines) == { i \in 1..Len(lines) : IsHeaderLine(lines[i]) }

\* C11: parsing the text merged by batched_generate_questions returns the
\* questions that parsing each batch output on its own returns, in the
\* same order; and when some batch output has a header, the merged text
\* has exactly one header line, followed by the data rows of all batches.
C11_MergePreservesResults ==
    (pc = "pq" /\ all_outputs # <<>>) =>
        /\ ret.exc = "none"
        /\ ret.parsed = ParsedFrom(all_outputs, 1)
        /\ (\E i \in 1..Len(all_outputs) : CsvHeaderOk(RawText(all_outputs[i]))) =>
              /\ Cardinality(HeaderLines(output_text.lines)) = 1
              /\ CsvDataRows(output_text) = DataRowsFrom(all_outputs, 1)

\* C14: in a quiz session the score never exceeds the number of indices
\* marked in scored_questions, the marked indices are indices of
\* questions, and q_index is an index of questions whenever there are
\* questions: an index is scored at most once per quiz.
C14_ScoreWithinBounds ==
    /\ score <= Cardinality(scored_questions)
    /\ scored_questions \subseteq 0..(Len(questions) - 1)
    /\ Cardinality(scored_questions) <= Len(questions)
    /\ questions # <<>> => q_index \in 0..(Len(questions) - 1)

\* the first question was answered right and then answered again with
\* another selection: it stays scored once
C14_Witness ==
    /\ pc = "ui"
    /\ Len(questions) >= 2
    /\ q_index = 0
    /\ answered
    /\ scored_questions = {0}
    /\ score = 1
    /\ Range(selected_letters) # Range(questions[1].correct_set)

\* C15: the retry loop of a settings submission runs at most 3 attempts;
\* no attempt follows one that returned at least the requested number of
\* questions or one that failed with a quota or rate error; the
\* failed-after-retries message is shown only after 3 attempts none of
\* which reached a break; and only an attempt that parsed at least one
\* question overwrites the stored quiz state.
C15_RetryLoop ==
    /\ attempt <= max_attempts
    /\ Len(attempts_log) <= max_attempts
    /\ \A i \in 1..(Len(attempts_log) - 1) :
          /\ attempts_log[i].n < attempts_log[i].asked
          /\ ~attempts_log[i].quota
    /\ failed_shown =>
          /\ Len(attempts_log) = max_attempts
          /\ \A i \in 1..Len(attempts_log) : ~attempts_log[i].broke
    /\ \A i \in 1..Len(attempts_log) : attempts_log[i].stored => attempts_log[i].n >= 1

====
